---------------------------- MODULE Spec2Model ----------------------------
(***************************************************************************)
(* Model of the Telluride ski rental MCP server                            *)
(* (src/telluride-ski-rental-mcp/src/index.ts).                            *)
(*                                                                         *)
(* The server holds one compiled-in array, skiRentals, and answers two     *)
(* kinds of request: tools/list and tools/call.  A tools/call request      *)
(* carries a tool name and an optional argument object.  Requests are      *)
(* handled one at a time; the handler has no awaits, so each request is    *)
(* one atomic step.                                                        *)
(*                                                                         *)
(* JavaScript strings are modelled by TLA+ strings (ASCII only), arrays by *)
(* sequences, objects by records, and other JavaScript values by tagged    *)
(* records (see "JavaScript values" below).  A record constructor lists    *)
(* its fields in the order in which the field names first appear in this   *)
(* module, which is the order in which TLC stores them.                    *)
(***************************************************************************)
EXTENDS Integers, Sequences, FiniteSets, TLC

VARIABLES
    skiRentals,   \* the module-level array of SkiRental objects
    request,      \* the request most recently handed to the server
    result,       \* how its handler completed: a returned value or a throw
    served        \* number of requests handled so far

vars == <<skiRentals, request, result, served>>

----------------------------------------------------------------------------
(* Bounds of the model *)

\* number of requests in one run
MaxCalls == 2

\* length of the generated argument strings
MaxLen == 2

\* largest generated numeric argument
MaxNum == 1

\* number of records in a generated catalog
MaxRecords == 2

----------------------------------------------------------------------------
(* JavaScript strings *)

\* the i-th character of s, as a one-character string
CharAt(s, i) == SubSeq(s, i, i)

\* Unicode simple lower-case mapping, restricted to ASCII
LowerOf ==
    [A |-> "a", B |-> "b", C |-> "c", D |-> "d", E |-> "e", F |-> "f",
     G |-> "g", H |-> "h", I |-> "i", J |-> "j", K |-> "k", L |-> "l",
     M |-> "m", N |-> "n", O |-> "o", P |-> "p", Q |-> "q", R |-> "r",
     S |-> "s", T |-> "t", U |-> "u", V |-> "v", W |-> "w", X |-> "x",
     Y |-> "y", Z |-> "z"]

LowerChar(c) == IF c \in DOMAIN LowerOf THEN LowerOf[c] ELSE c

\* the characters lo..hi of s, each mapped to lower case (split in halves to
\* keep the evaluation shallow)
RECURSIVE LowerRange(_, _, _)
LowerRange(s, lo, hi) ==
    IF lo > hi THEN ""
    ELSE IF lo = hi THEN LowerChar(CharAt(s, lo))
    ELSE LET mid == (lo + hi) \div 2
         IN  LowerRange(s, lo, mid) \o LowerRange(s, mid + 1, hi)

\* String.prototype.toLowerCase
toLowerCase(s) == LowerRange(s, 1, Len(s))

\* String.prototype.includes that treats the empty needle as absent
IncludesNonEmpty(s, q) ==
    /\ Len(q) > 0
    /\ \E i \in 1..(Len(s) - Len(q) + 1) : SubSeq(s, i, i + Len(q) - 1) = q

\* String.prototype.includes(searchString): searchString occurs in s at
\* some position; the empty string occurs at position 0 of every string
includes(s, q) ==
    \E i \in 0..(Len(s) - Len(q)) : SubSeq(s, i + 1, i + Len(q)) = q

\* Array.prototype.some is written \E i \in 1..Len(arr) : ..., and
\* Array.prototype.filter is SelectSeq: the elements that satisfy the
\* predicate, in array order.

----------------------------------------------------------------------------
(* The catalog *)

SkiRentalsData == <<
    [id |-> "telluride-sports",
     name |-> "Telluride Sports",
     location |-> "Telluride",
     address |-> "150 W Colorado Ave, Telluride, CO 81435",
     phone |-> "(970) 728-4477",
     website |-> "https://www.tellurideports.com",
     description |-> "Full-service ski and snowboard shop in downtown Telluride offering premium rentals, demos, and expert fitting services.",
     services |-> <<"Ski Rentals", "Snowboard Rentals", "Demo Equipment", "Tune-ups", "Repairs", "Boot Fitting">>,
     rentalTypes |-> <<"Adult Skis", "Junior Skis", "Performance Skis", "Snowboards", "Boots", "Poles", "Helmets">>,
     priceRange |-> "$40-$80/day",
     hours |-> "8:00 AM - 6:00 PM daily"],
    [id |-> "bootdoctors",
     name |-> "Bootdoctors",
     location |-> "Mountain Village",
     address |-> "568 Mountain Village Blvd, Mountain Village, CO 81435",
     phone |-> "(970) 728-4882",
     website |-> "https://www.bootdoctors.com",
     description |-> "Renowned for custom boot fitting and high-performance ski rentals. Located at the base of the gondola in Mountain Village.",
     services |-> <<"Premium Rentals", "Custom Boot Fitting", "Expert Advice", "Demo Skis", "Repairs">>,
     rentalTypes |-> <<"High-Performance Skis", "All-Mountain Skis", "Powder Skis", "Touring Equipment", "Custom Boots">>,
     priceRange |-> "$50-$100/day",
     hours |-> "8:00 AM - 5:00 PM daily"],
    [id |-> "jagged-edge",
     name |-> "Jagged Edge Mountain Gear",
     location |-> "Telluride",
     address |-> "223 E Colorado Ave, Telluride, CO 81435",
     phone |-> "(970) 728-9264",
     website |-> "https://www.jaggededgemountaingear.com",
     description |-> "Local favorite offering quality ski rentals, backcountry gear, and personalized service in downtown Telluride.",
     services |-> <<"Ski Rentals", "Backcountry Gear", "Avalanche Safety Equipment", "Repairs", "Expert Consultation">>,
     rentalTypes |-> <<"All-Mountain Skis", "Backcountry Skis", "Touring Gear", "Splitboards", "Safety Equipment">>,
     priceRange |-> "$35-$75/day",
     hours |-> "8:00 AM - 6:00 PM daily"],
    [id |-> "paragon-ski-snowboard",
     name |-> "Paragon Ski & Snowboard",
     location |-> "Mountain Village",
     address |-> "Mountain Village Plaza, Mountain Village, CO 81435",
     phone |-> "(970) 369-0435",
     website |-> "https://www.paragontelluride.com",
     description |-> "Conveniently located in Mountain Village offering a wide selection of rental equipment for all skill levels.",
     services |-> <<"Ski Rentals", "Snowboard Rentals", "Group Rentals", "Online Reservations", "Delivery Service">>,
     rentalTypes |-> <<"Beginner Packages", "Intermediate Skis", "Advanced Skis", "Snowboards", "Kids Equipment">>,
     priceRange |-> "$35-$70/day",
     hours |-> "7:30 AM - 5:30 PM daily"],
    [id |-> "telluride-ski-rental-delivery",
     name |-> "Telluride Ski Rental Delivery",
     location |-> "Telluride (Delivery Service)",
     address |-> "Delivery to your location in Telluride area",
     phone |-> "(970) 708-8754",
     website |-> "https://www.tellurideskirentaldelivery.com",
     description |-> "Premium ski rental delivery service bringing equipment directly to your accommodation with professional fitting.",
     services |-> <<"Delivery Service", "In-Room Fitting", "Premium Equipment", "Flexible Pickup", "24/7 Support">>,
     rentalTypes |-> <<"Premium Skis", "High-End Snowboards", "Kids Equipment", "Full Packages">>,
     priceRange |-> "$45-$90/day + delivery fee",
     hours |-> "By appointment - 7 days a week"],
    [id |-> "mountain-sports-telluride",
     name |-> "Mountain Sports Telluride",
     location |-> "Telluride",
     address |-> "100 W San Juan Ave, Telluride, CO 81435",
     phone |-> "(970) 728-4239",
     description |-> "Long-established Telluride shop offering affordable ski rentals and expert local knowledge.",
     services |-> <<"Ski Rentals", "Snowboard Rentals", "Repairs", "Waxing", "Tune-ups">>,
     rentalTypes |-> <<"Standard Skis", "Performance Skis", "Snowboards", "Kids Equipment", "Boots", "Helmets">>,
     priceRange |-> "$30-$65/day",
     hours |-> "8:00 AM - 6:00 PM daily"]
>>

\* property order of a SkiRental object (insertion order of the literals)
SkiRentalKeys ==
    <<"id", "name", "location", "address", "phone", "website", "description",
      "services", "rentalTypes", "priceRange", "hours">>

\* the properties that hold string arrays
ArrayKeys == {"services", "rentalTypes"}

----------------------------------------------------------------------------
(* JSON.stringify(value, null, 2) *)

RECURSIVE Spaces(_)
Spaces(n) == IF n <= 0 THEN "" ELSE " " \o Spaces(n - 1)

\* JSON escape of one character
EscapeChar(c) ==
    CASE c = "\"" -> "\\\""
      [] c = "\\" -> "\\\\"
      [] c = "\n" -> "\\n"
      [] OTHER -> c

RECURSIVE EscapeRange(_, _, _)
EscapeRange(s, lo, hi) ==
    IF lo > hi THEN ""
    ELSE IF lo = hi THEN EscapeChar(CharAt(s, lo))
    ELSE LET mid == (lo + hi) \div 2
         IN  EscapeRange(s, lo, mid) \o EscapeRange(s, mid + 1, hi)

\* the characters that JSON writes as an escape sequence (of those that
\* the model's strings can hold)
Escaped == {"\"", "\\", "\n"}

\* serialization of a string: the string between quotes, with its
\* characters escaped where one needs it
Quote(s) ==
    IF \E i \in 1..Len(s) : CharAt(s, i) \in Escaped
        THEN "\"" \o EscapeRange(s, 1, Len(s)) \o "\""
        ELSE "\"" \o s \o "\""

\* the items of an array, one per line at the given indentation
RECURSIVE JoinLines(_, _, _)
JoinLines(items, i, indent) ==
    IF i > Len(items) THEN ""
    ELSE Spaces(indent) \o items[i]
         \o (IF i < Len(items) THEN ",\n" ELSE "\n")
         \o JoinLines(items, i + 1, indent)

\* serialization of an array whose items are already serialized at indent + 2
StringifyArray(items, indent) ==
    IF Len(items) = 0 THEN "[]"
    ELSE "[\n" \o JoinLines(items, 1, indent + 2) \o Spaces(indent) \o "]"

\* serialization of an object whose members ("key": value) are already
\* serialized at indent + 2
StringifyObject(members, indent) ==
    IF Len(members) = 0 THEN "{}"
    ELSE "{\n" \o JoinLines(members, 1, indent + 2) \o Spaces(indent) \o "}"

StringifyStrings(arr, indent) ==
    StringifyArray([i \in 1..Len(arr) |-> Quote(arr[i])], indent)

\* the members of a SkiRental object; a property that is not set (website)
\* is left out
RECURSIVE RentalMembers(_, _, _)
RentalMembers(r, k, indent) ==
    IF k > Len(SkiRentalKeys) THEN <<>>
    ELSE LET key == SkiRentalKeys[k]
             rest == RentalMembers(r, k + 1, indent)
         IN  IF key \notin DOMAIN r THEN rest
             ELSE <<Quote(key) \o ": " \o
                    (IF key \in ArrayKeys
                        THEN StringifyStrings(r[key], indent)
                        ELSE Quote(r[key]))>> \o rest

StringifyRental(r, indent) ==
    StringifyObject(RentalMembers(r, 1, indent + 2), indent)

StringifyRentals(arr, indent) ==
    StringifyArray([i \in 1..Len(arr) |-> StringifyRental(arr[i], indent + 2)],
                   indent)

\* serialization of { explanation, recommendations }
StringifyRecommendation(response, indent) ==
    StringifyObject(
        <<Quote("explanation") \o ": " \o Quote(response.explanation),
          Quote("recommendations") \o ": "
              \o StringifyRentals(response.recommendations, indent + 2)>>,
        indent)

----------------------------------------------------------------------------
(* JavaScript values *)

\* A value of an argument is one of the JSON-decodable scalars; a SkiRental
\* object is a TLA+ record of its properties.
Undefined == [type |-> "undefined"]
Null == [type |-> "null"]
Str(s) == [type |-> "string", str |-> s]
Num(n) == [type |-> "number", num |-> n]
Bool(b) == [type |-> "boolean", bool |-> b]
Obj(props) == [type |-> "object", props |-> props]

\* a tools/call request: params.arguments is Undefined or an Obj
CallRequest(name, args) ==
    [method |-> "tools/call", params |-> [name |-> name, arguments |-> args]]

\* completion of a piece of code: a returned value or a thrown Error
Return(v) == [kind |-> "return", value |-> v]
Throw(msg) == [kind |-> "throw", error |-> [name |-> "TypeError", message |-> msg]]

Digit(d) == SubSeq("0123456789", d + 1, d + 1)

RECURSIVE NatToString(_)
NatToString(n) ==
    IF n < 10 THEN Digit(n) ELSE NatToString(n \div 10) \o Digit(n % 10)

\* String(v), as applied by a template literal
StringOf(v) ==
    CASE v.type = "string" -> v.str
      [] v.type = "number" -> NatToString(v.num)
      [] v.type = "boolean" -> (IF v.bool THEN "true" ELSE "false")
      [] v.type = "null" -> "null"
      [] v.type = "undefined" -> "undefined"

\* obj.key where obj is request.params.arguments: a TypeError when there is
\* no argument object, undefined when the object has no such property
\* (message texts are those of V8)
GetProperty(obj, key) ==
    IF obj.type = "undefined"
        THEN Throw("Cannot read properties of undefined (reading '" \o key \o "')")
    ELSE IF key \in DOMAIN obj.props THEN Return(obj.props[key])
    ELSE Return(Undefined)

\* the argument used as it was sent, without toLowerCase()
CallToLowerCaseOmitted(v, key) ==
    CASE v.type = "string" -> Return(v.str)
      [] v.type \in {"undefined", "null"} ->
            Throw("Cannot read properties of " \o v.type
                  \o " (reading 'toLowerCase')")
      [] OTHER -> Throw("args." \o key \o ".toLowerCase is not a function")

\* v.toLowerCase() for an argument value v read as args.<key>
CallToLowerCase(v, key) ==
    CASE v.type = "string" -> Return(toLowerCase(v.str))
      [] v.type \in {"undefined", "null"} ->
            Throw("Cannot read properties of " \o v.type
                  \o " (reading 'toLowerCase')")
      [] OTHER -> Throw("args." \o key \o ".toLowerCase is not a function")

\* the ids compared without regard to case
IdEqualsIgnoreCase(r, v) ==
    v.type = "string" /\ toLowerCase(r.id) = toLowerCase(v.str)

\* r.id === v
IdStrictEquals(r, v) == v.type = "string" /\ r.id = v.str

\* the first element of skiRentals whose id === rentalId, or undefined
FindRental(arr, rentalId) ==
    IF \E i \in 1..Len(arr) : IdStrictEquals(arr[i], rentalId)
        THEN arr[CHOOSE i \in 1..Len(arr) :
                    /\ IdStrictEquals(arr[i], rentalId)
                    /\ \A j \in 1..(i - 1) : ~IdStrictEquals(arr[j], rentalId)]
        ELSE Undefined

\* a response with one text block
TextResult(text) == [content |-> <<[type |-> "text", text |-> text]>>]

\* a response with one text block and isError: true
ErrorResult(text) ==
    [content |-> <<[type |-> "text", text |-> text]>>, isError |-> TRUE]

----------------------------------------------------------------------------
(* tools/list *)

Tools == <<
    [name |-> "list_ski_rentals",
     description |-> "Get a list of all ski rental places near Telluride, Colorado with their details",
     inputSchema |-> [type |-> "object", properties |-> <<>>]],
    [name |-> "get_rental_details",
     description |-> "Get detailed information about a specific ski rental shop by ID",
     inputSchema |->
        [type |-> "object",
         properties |-> <<[name |-> "rental_id",
                           description |-> "The ID of the ski rental shop",
                           type |-> "string"]>>,
         required |-> <<"rental_id">>]],
    [name |-> "search_rentals",
     description |-> "Search for ski rental shops by location, service type, or rental type",
     inputSchema |->
        [type |-> "object",
         properties |-> <<[name |-> "query",
                           description |-> "Search query (location, service, or equipment type)",
                           type |-> "string"]>>,
         required |-> <<"query">>]],
    [name |-> "get_rental_recommendations",
     description |-> "Get ski rental recommendations based on needs (beginner, expert, backcountry, delivery, etc.)",
     inputSchema |->
        [type |-> "object",
         properties |-> <<[name |-> "need",
                           description |-> "Type of need: 'beginner', 'expert', 'backcountry', 'delivery', 'budget', 'premium', 'family'",
                           type |-> "string"]>>,
         required |-> <<"need">>]]
>>

ListToolsHandler == Return([tools |-> Tools])

----------------------------------------------------------------------------
(* tools/call *)

\* the list cut to its first five records
ListSkiRentalsTruncated(cat) ==
    Return(TextResult(StringifyRentals(SubSeq(cat, 1, 5), 0)))

ListSkiRentals(cat) == Return(TextResult(StringifyRentals(cat, 0)))

\* the not-found message without the quotes around the id
GetRentalDetailsBareId(cat, args) ==
    LET read == GetProperty(args, "rental_id") IN
    IF read.kind = "throw" THEN read
    ELSE LET rentalId == read.value
             rental == FindRental(cat, rentalId)
         IN  IF rental = Undefined
                THEN Return(ErrorResult("Ski rental shop with ID "
                                        \o StringOf(rentalId) \o " not found."))
                ELSE Return(TextResult(StringifyRental(rental, 0)))

\* the lookup that ignores the requested id
GetRentalDetailsFirst(cat, args) ==
    LET read == GetProperty(args, "rental_id") IN
    IF read.kind = "throw" THEN read
    ELSE LET rentalId == read.value
             rental == IF rentalId.type = "string" /\ Len(cat) > 0
                          THEN cat[1] ELSE Undefined
         IN  IF rental = Undefined
                THEN Return(ErrorResult("Ski rental shop with ID \""
                                        \o StringOf(rentalId) \o "\" not found."))
                ELSE Return(TextResult(StringifyRental(rental, 0)))

GetRentalDetails(cat, args) ==
    LET read == GetProperty(args, "rental_id") IN
    IF read.kind = "throw" THEN read
    ELSE LET rentalId == read.value
             rental == FindRental(cat, rentalId)
         IN  IF rental = Undefined
                THEN Return(ErrorResult("Ski rental shop with ID \""
                                        \o StringOf(rentalId) \o "\" not found."))
                ELSE Return(TextResult(StringifyRental(rental, 0)))

\* a search over name and location only
SearchMatchesNameLocation(rental, query) ==
    \/ includes(toLowerCase(rental.name), query)
    \/ includes(toLowerCase(rental.location), query)

\* the filter predicate extended to the address
SearchMatchesAddress(rental, query) ==
    \/ includes(toLowerCase(rental.name), query)
    \/ includes(toLowerCase(rental.location), query)
    \/ includes(toLowerCase(rental.address), query)
    \/ includes(toLowerCase(rental.description), query)
    \/ \E i \in 1..Len(rental.services) :
            includes(toLowerCase(rental.services[i]), query)
    \/ \E i \in 1..Len(rental.rentalTypes) :
            includes(toLowerCase(rental.rentalTypes[i]), query)

\* the filter predicate of search_rentals; query is already lower case
SearchMatches(rental, query) ==
    \/ includes(toLowerCase(rental.name), query)
    \/ includes(toLowerCase(rental.location), query)
    \/ includes(toLowerCase(rental.description), query)
    \/ \E i \in 1..Len(rental.services) :
            includes(toLowerCase(rental.services[i]), query)
    \/ \E i \in 1..Len(rental.rentalTypes) :
            includes(toLowerCase(rental.rentalTypes[i]), query)

\* a search that flags an empty result as an error
SearchRentalsErrorWhenEmpty(cat, args) ==
    LET read == GetProperty(args, "query") IN
    IF read.kind = "throw" THEN read
    ELSE LET lowered == CallToLowerCase(read.value, "query") IN
         IF lowered.kind = "throw" THEN lowered
         ELSE LET query == lowered.value
                  results == SelectSeq(cat, LAMBDA rental : SearchMatches(rental, query))
              IN  IF results = <<>>
                    THEN Return(ErrorResult(StringifyRentals(results, 0)))
                    ELSE Return(TextResult(StringifyRentals(results, 0)))

SearchRentals(cat, args) ==
    LET read == GetProperty(args, "query") IN
    IF read.kind = "throw" THEN read
    ELSE LET lowered == CallToLowerCase(read.value, "query") IN
         IF lowered.kind = "throw" THEN lowered
         ELSE LET query == lowered.value
                  results == SelectSeq(cat, LAMBDA rental : SearchMatches(rental, query))
              IN  Return(TextResult(StringifyRentals(results, 0)))

\* t.toLowerCase().includes(word) for some element t of arr
SomeIncludes(arr, word) ==
    \E i \in 1..Len(arr) : includes(toLowerCase(arr[i]), word)

\* case "beginner": the filter callback
BeginnerFilter(r) ==
    \/ SomeIncludes(r.rentalTypes, "beginner")
    \/ r.id = "paragon-ski-snowboard"
    \/ r.id = "mountain-sports-telluride"

\* case "expert" / "advanced": the filter callback
ExpertFilter(r) ==
    \/ \E i \in 1..Len(r.rentalTypes) :
            \/ includes(toLowerCase(r.rentalTypes[i]), "performance")
            \/ includes(toLowerCase(r.rentalTypes[i]), "premium")
    \/ r.id = "bootdoctors"
    \/ r.id = "telluride-sports"

\* the backcountry filter testing both arrays for both words
BackcountryFilterBothWords(r) ==
    \/ SomeIncludes(r.services, "backcountry")
    \/ SomeIncludes(r.services, "touring")
    \/ \E i \in 1..Len(r.rentalTypes) :
            \/ includes(toLowerCase(r.rentalTypes[i]), "backcountry")
            \/ includes(toLowerCase(r.rentalTypes[i]), "touring")

\* case "backcountry" / "touring": the filter callback; services is tested
\* for "backcountry" only, rentalTypes for both words
BackcountryFilter(r) ==
    \/ SomeIncludes(r.services, "backcountry")
    \/ \E i \in 1..Len(r.rentalTypes) :
            \/ includes(toLowerCase(r.rentalTypes[i]), "backcountry")
            \/ includes(toLowerCase(r.rentalTypes[i]), "touring")

\* the delivery filter without the designated id
DeliveryFilterByService(r) == SomeIncludes(r.services, "delivery")

\* case "delivery": the filter callback
DeliveryFilter(r) ==
    \/ SomeIncludes(r.services, "delivery")
    \/ r.id = "telluride-ski-rental-delivery"

\* the budget filter with one price marker only
BudgetFilterOneMarker(r) ==
    \/ includes(r.priceRange, "$30")
    \/ r.id = "mountain-sports-telluride"

\* case "budget" / "affordable": the filter callback
BudgetFilter(r) ==
    \/ includes(r.priceRange, "$30")
    \/ includes(r.priceRange, "$35")
    \/ r.id = "mountain-sports-telluride"

\* the premium filter reading the tags instead of the ids
PremiumFilterByTag(r) ==
    \/ SomeIncludes(r.services, "premium")
    \/ SomeIncludes(r.rentalTypes, "premium")

\* case "premium" / "luxury": the filter callback
PremiumFilter(r) ==
    \/ r.id = "bootdoctors"
    \/ r.id = "telluride-ski-rental-delivery"
    \/ r.id = "telluride-sports"

\* case "family" / "kids": the filter callback
FamilyFilter(r) ==
    \E i \in 1..Len(r.rentalTypes) :
        \/ includes(toLowerCase(r.rentalTypes[i]), "kids")
        \/ includes(toLowerCase(r.rentalTypes[i]), "junior")

\* a default branch that recommends nothing
DefaultRecommendationsNone(cat) == <<>>

\* default: recommendations = skiRentals
DefaultRecommendations(cat) == cat

\* the switch without the second label of each case
RecommendFirstLabels(cat, need) ==
    CASE need = "beginner" ->
            [explanation |-> "These shops offer beginner-friendly equipment and packages with great service for first-timers.",
             recommendations |-> SelectSeq(cat, BeginnerFilter)]
      [] need = "expert" ->
            [explanation |-> "These shops specialize in high-performance equipment and expert boot fitting for advanced skiers.",
             recommendations |-> SelectSeq(cat, ExpertFilter)]
      [] need = "backcountry" ->
            [explanation |-> "These shops offer backcountry and touring equipment with avalanche safety gear.",
             recommendations |-> SelectSeq(cat, BackcountryFilter)]
      [] need = "delivery" ->
            [explanation |-> "These shops offer delivery service to your accommodation.",
             recommendations |-> SelectSeq(cat, DeliveryFilter)]
      [] need = "budget" ->
            [explanation |-> "These shops offer the most affordable rental options in the Telluride area.",
             recommendations |-> SelectSeq(cat, BudgetFilter)]
      [] need = "premium" ->
            [explanation |-> "These shops offer premium equipment and high-end services for the best skiing experience.",
             recommendations |-> SelectSeq(cat, PremiumFilter)]
      [] need = "family" ->
            [explanation |-> "These shops have great options for families and children's equipment.",
             recommendations |-> SelectSeq(cat, FamilyFilter)]
      [] OTHER ->
            [explanation |-> "Here are all available ski rental options in the Telluride area.",
             recommendations |-> DefaultRecommendations(cat)]

\* a classification by containment of the first label in need
RecommendByContainment(cat, need) ==
    CASE includes(need, "beginner") ->
            [explanation |-> "These shops offer beginner-friendly equipment and packages with great service for first-timers.",
             recommendations |-> SelectSeq(cat, BeginnerFilter)]
      [] (includes(need, "expert") \/ includes(need, "advanced")) ->
            [explanation |-> "These shops specialize in high-performance equipment and expert boot fitting for advanced skiers.",
             recommendations |-> SelectSeq(cat, ExpertFilter)]
      [] (includes(need, "backcountry") \/ includes(need, "touring")) ->
            [explanation |-> "These shops offer backcountry and touring equipment with avalanche safety gear.",
             recommendations |-> SelectSeq(cat, BackcountryFilter)]
      [] includes(need, "delivery") ->
            [explanation |-> "These shops offer delivery service to your accommodation.",
             recommendations |-> SelectSeq(cat, DeliveryFilter)]
      [] (includes(need, "budget") \/ includes(need, "affordable")) ->
            [explanation |-> "These shops offer the most affordable rental options in the Telluride area.",
             recommendations |-> SelectSeq(cat, BudgetFilter)]
      [] (includes(need, "premium") \/ includes(need, "luxury")) ->
            [explanation |-> "These shops offer premium equipment and high-end services for the best skiing experience.",
             recommendations |-> SelectSeq(cat, PremiumFilter)]
      [] (includes(need, "family") \/ includes(need, "kids")) ->
            [explanation |-> "These shops have great options for families and children's equipment.",
             recommendations |-> SelectSeq(cat, FamilyFilter)]
      [] OTHER ->
            [explanation |-> "Here are all available ski rental options in the Telluride area.",
             recommendations |-> DefaultRecommendations(cat)]

\* the switch (need) of get_rental_recommendations
Recommend(cat, need) ==
    CASE need = "beginner" ->
            [explanation |-> "These shops offer beginner-friendly equipment and packages with great service for first-timers.",
             recommendations |-> SelectSeq(cat, BeginnerFilter)]
      [] need \in {"expert", "advanced"} ->
            [explanation |-> "These shops specialize in high-performance equipment and expert boot fitting for advanced skiers.",
             recommendations |-> SelectSeq(cat, ExpertFilter)]
      [] need \in {"backcountry", "touring"} ->
            [explanation |-> "These shops offer backcountry and touring equipment with avalanche safety gear.",
             recommendations |-> SelectSeq(cat, BackcountryFilter)]
      [] need = "delivery" ->
            [explanation |-> "These shops offer delivery service to your accommodation.",
             recommendations |-> SelectSeq(cat, DeliveryFilter)]
      [] need \in {"budget", "affordable"} ->
            [explanation |-> "These shops offer the most affordable rental options in the Telluride area.",
             recommendations |-> SelectSeq(cat, BudgetFilter)]
      [] need \in {"premium", "luxury"} ->
            [explanation |-> "These shops offer premium equipment and high-end services for the best skiing experience.",
             recommendations |-> SelectSeq(cat, PremiumFilter)]
      [] need \in {"family", "kids"} ->
            [explanation |-> "These shops have great options for families and children's equipment.",
             recommendations |-> SelectSeq(cat, FamilyFilter)]
      [] OTHER ->
            [explanation |-> "Here are all available ski rental options in the Telluride area.",
             recommendations |-> DefaultRecommendations(cat)]

\* the handler falling back to the generic explanation when nothing matched
GetRentalRecommendationsGenericWhenEmpty(cat, args) ==
    LET read == GetProperty(args, "need") IN
    IF read.kind = "throw" THEN read
    ELSE LET lowered == CallToLowerCase(read.value, "need") IN
         IF lowered.kind = "throw" THEN lowered
         ELSE LET response == Recommend(cat, lowered.value) IN
              Return(TextResult(StringifyRecommendation(
                IF response.recommendations = <<>>
                    THEN Recommend(cat, "")
                    ELSE response, 0)))

GetRentalRecommendations(cat, args) ==
    LET read == GetProperty(args, "need") IN
    IF read.kind = "throw" THEN read
    ELSE LET lowered == CallToLowerCase(read.value, "need") IN
         IF lowered.kind = "throw" THEN lowered
         ELSE Return(TextResult(
                StringifyRecommendation(Recommend(cat, lowered.value), 0)))

\* the fallthrough without isError
UnknownToolUnflagged(name) == Return(TextResult("Unknown tool: " \o name))

\* the fallthrough after the four name tests
UnknownTool(name) == Return(ErrorResult("Unknown tool: " \o name))

\* the chain of tests with one name misspelt
CallToolBodyMisspelt(cat, params) ==
    LET name == params.name
        args == params.arguments
    IN  IF name = "list_ski_rentals" THEN ListSkiRentals(cat)
        ELSE IF name = "get_rental_details" THEN GetRentalDetails(cat, args)
        ELSE IF name = "search_rental" THEN SearchRentals(cat, args)
        ELSE IF name = "get_rental_recommendations"
            THEN GetRentalRecommendations(cat, args)
        ELSE UnknownTool(name)

\* the body of the try block: the chain of tests on name
CallToolBody(cat, params) ==
    LET name == params.name
        args == params.arguments
    IN  IF name = "list_ski_rentals" THEN ListSkiRentals(cat)
        ELSE IF name = "get_rental_details" THEN GetRentalDetails(cat, args)
        ELSE IF name = "search_rentals" THEN SearchRentals(cat, args)
        ELSE IF name = "get_rental_recommendations"
            THEN GetRentalRecommendations(cat, args)
        ELSE UnknownTool(name)

\* a catch clause that drops the Error's message
CatchWithoutMessage(completion) ==
    IF completion.kind = "throw"
        THEN Return(ErrorResult("Error: internal error"))
        ELSE completion

\* no catch clause: a throw leaves the handler
CatchNothing(completion) == completion

\* the catch clause: the Error's message becomes an isError response
Catch(completion) ==
    IF completion.kind = "throw"
        THEN Return(ErrorResult("Error: " \o completion.error.message))
        ELSE completion

\* the tools/call handler: try { body } catch { ... }
CallToolHandler(cat, params) == Catch(CallToolBody(cat, params))

Reverse(arr) == [i \in 1..Len(arr) |-> arr[Len(arr) + 1 - i]]

\* the default branch of the switch reversing its recommendations in place,
\* which are the array skiRentals itself
StoreAfterCallAliased(cat, params) ==
    IF /\ params.name = "get_rental_recommendations"
       /\ CallToolBody(cat, params).kind = "return"
       /\ Recommend(cat, toLowerCase(params.arguments.props["need"].str)).explanation
            = "Here are all available ski rental options in the Telluride area."
    THEN Reverse(cat)
    ELSE cat

\* the array skiRentals after a tools/call: no branch of the handler assigns
\* to it, to one of its elements, or calls a mutating method on it
StoreAfterCall(cat, params) == cat

----------------------------------------------------------------------------
(* The requests the model sends *)

Alphabet == {"o", "O"}

RECURSIVE StringsOfLen(_)
StringsOfLen(n) ==
    IF n = 0 THEN {""}
    ELSE {c \o s : c \in Alphabet, s \in StringsOfLen(n - 1)}

GenStrings == UNION {StringsOfLen(n) : n \in 0..MaxLen}

CatalogIds == {SkiRentalsData[i].id : i \in 1..Len(SkiRentalsData)}

IdInputs ==
    CatalogIds \cup GenStrings
    \cup {"Bootdoctors", "BOOTDOCTORS", "does-not-exist", "bootdoctors ",
          "jagged", "undefined"}

QueryInputs ==
    GenStrings
    \cup {"MOUNTAIN VILLAGE", "mountain village", "Mountain Village",
          "backcountry", "BackCountry", "touring", "delivery", "Kids",
          "81435", "(970)", "daily", "$30", "jagged-edge", "https",
          "colorado ave", "snowboards", "zzz", "ski rentals and"}

NeedKeywords ==
    {"beginner", "expert", "advanced", "backcountry", "touring", "delivery",
     "budget", "affordable", "premium", "luxury", "family", "kids"}

NeedInputs ==
    NeedKeywords \cup GenStrings
    \cup {"BEGINNER", "Beginner", " beginner", "beginner skis",
          "budget family", "nonsense-keyword", "LUXURY", "Kids", "families"}

NonStrings == {Null, Bool(TRUE)} \cup {Num(n) : n \in 0..MaxNum}

\* the argument objects sent to a tool whose required argument is key
ArgsWith(key, strings) ==
    {Undefined, Obj([k \in {} |-> Null]), Obj([k \in {"id"} |-> Str("bootdoctors")])}
    \cup {Obj([k \in {key} |-> v]) : v \in {Str(s) : s \in strings} \cup NonStrings}

ToolNames == {Tools[i].name : i \in 1..Len(Tools)}

UnknownNames ==
    {"list_all", "get_details", "search", "recommend", "", "List_Ski_Rentals",
     "search_rental"}

----------------------------------------------------------------------------
(* Actions: one per request kind *)

\* the server handles one tools/call request
Serve(req) ==
    /\ served < MaxCalls
    /\ request' = req
    /\ result' = CallToolHandler(skiRentals, req.params)
    /\ skiRentals' = StoreAfterCall(skiRentals, req.params)
    /\ served' = served + 1

ListTools ==
    /\ served < MaxCalls
    /\ request' = [method |-> "tools/list"]
    /\ result' = ListToolsHandler
    /\ served' = served + 1
    /\ UNCHANGED skiRentals

CallListSkiRentals ==
    \E args \in {Undefined, Obj([k \in {} |-> Null]),
                 Obj([k \in {"query"} |-> Str("k")])} :
        Serve(CallRequest("list_ski_rentals", args))

CallGetRentalDetails ==
    \E args \in ArgsWith("rental_id", IdInputs) :
        Serve(CallRequest("get_rental_details", args))

CallSearchRentals ==
    \E args \in ArgsWith("query", QueryInputs) :
        Serve(CallRequest("search_rentals", args))

CallGetRentalRecommendations ==
    \E args \in ArgsWith("need", NeedInputs) :
        Serve(CallRequest("get_rental_recommendations", args))

CallUnknownTool ==
    \E name \in UnknownNames :
        \E args \in {Undefined, Obj([k \in {} |-> Null]),
                     Obj([k \in {"query"} |-> Str("k")])} :
            Serve(CallRequest(name, args))

\* the ids that README.md lists under "Available IDs"
AvailableIds ==
    {"telluride-sports", "bootdoctors", "jagged-edge", "paragon-ski-snowboard",
     "telluride-ski-rental-delivery", "mountain-sports-telluride"}

\* the array with one id written twice
InitDuplicateId ==
    /\ skiRentals = [SkiRentalsData EXCEPT ![6].id = "telluride-sports"]
    /\ request = [method |-> "none"]
    /\ result = [kind |-> "none"]
    /\ served = 0

Init ==
    /\ skiRentals = SkiRentalsData
    /\ request = [method |-> "none"]
    /\ result = [kind |-> "none"]
    /\ served = 0

Next ==
    \/ ListTools
    \/ CallListSkiRentals
    \/ CallGetRentalDetails
    \/ CallSearchRentals
    \/ CallGetRentalRecommendations
    \/ CallUnknownTool

Spec == Init /\ [][Next]_vars

----------------------------------------------------------------------------
(* The handler over other catalogs                                         *)
(*                                                                         *)
(* The handler reads skiRentals and nothing else of the module, so each    *)
(* branch is a function of the array and the arguments.  The second        *)
(* specification starts the server on an array of SkiRental objects other  *)
(* than the compiled-in one: the ids of the case labels carried by records *)
(* without the matching tags, and the tags carried by another id.          *)

\* a SkiRental object; the fields the handler only serializes are fixed
SkiRental(id, services, rentalTypes, priceRange) ==
    [id |-> id,
     name |-> "Shop",
     location |-> "Telluride",
     address |-> "1 Main St",
     phone |-> "(970) 000-0000",
     description |-> "A shop.",
     services |-> services,
     rentalTypes |-> rentalTypes,
     priceRange |-> priceRange,
     hours |-> "daily"]

RentalPool ==
    {SkiRental("bootdoctors", <<"Guided Touring">>, <<"Adult Skis">>,
               "$300/week"),
     SkiRental("alpine-hut", <<"Premium Rentals">>,
               <<"Premium Skis", "Kids Equipment">>, "$35/day"),
     SkiRental("telluride-ski-rental-delivery", <<"Ski Rentals">>,
               <<"Beginner Packages">>, "$60/day"),
     SkiRental("mountain-sports-telluride", <<"Delivery Service">>,
               <<"Touring GEAR">>, "$80/day"),
     SkiRental("paragon-ski-snowboard", <<"BACKCOUNTRY Gear">>,
               <<"Junior Skis", "Performance Skis">>, "$90/day")}

\* the arrays of at most n distinct objects of the pool
RECURSIVE CatalogsUpTo(_)
CatalogsUpTo(n) ==
    IF n = 0 THEN {<<>>}
    ELSE LET shorter == CatalogsUpTo(n - 1)
         IN  shorter \cup
             {Append(cat, r) : cat \in {c \in shorter : Len(c) = n - 1},
                               r \in RentalPool}

Catalogs ==
    {cat \in CatalogsUpTo(MaxRecords) :
        \A i, j \in 1..Len(cat) : cat[i].id = cat[j].id => i = j}
    \cup {SkiRentalsData}

InitAnyCatalog ==
    /\ skiRentals \in Catalogs
    /\ request = [method |-> "none"]
    /\ result = [kind |-> "none"]
    /\ served = 0

NextAnyCatalog ==
    \/ CallListSkiRentals
    \/ CallGetRentalRecommendations

SpecAnyCatalog == InitAnyCatalog /\ [][NextAnyCatalog]_vars

----------------------------------------------------------------------------
(* Reading the last request and its result *)

IsCall(name) == request.method = "tools/call" /\ request.params.name = name

\* the last request carried a string as argument key
HasStringArg(key) ==
    /\ request.method = "tools/call"
    /\ request.params.arguments.type = "object"
    /\ key \in DOMAIN request.params.arguments.props
    /\ request.params.arguments.props[key].type = "string"

StringArg(key) == request.params.arguments.props[key].str

\* the last request carried no usable argument key: no argument object, no
\* such property, or a value that is not a string
LacksStringArg(key) == request.method = "tools/call" /\ ~HasStringArg(key)

Returned == result.kind = "return"

IsError(response) == "isError" \in DOMAIN response /\ response.isError = TRUE

TextOf(response) == response.content[1].text

\* the result is a returned response without the error flag, with this text
SucceededWith(text) ==
    /\ Returned
    /\ ~IsError(result.value)
    /\ result.value.content = <<[type |-> "text", text |-> text]>>

\* the result is a returned response with the error flag
FailedInBand ==
    /\ Returned
    /\ IsError(result.value)
    /\ Len(result.value.content) = 1
    /\ result.value.content[1].type = "text"

IdsOf(cat) == {cat[i].id : i \in 1..Len(cat)}

\* q occurs in s as a contiguous run of characters
Occurs(q, s) ==
    \E pre \in 0..Len(s) :
        /\ pre + Len(q) <= Len(s)
        /\ \A k \in 1..Len(q) : CharAt(s, pre + k) = CharAt(q, k)

Uppers == "ABCDEFGHIJKLMNOPQRSTUVWXYZ"
Lowers == "abcdefghijklmnopqrstuvwxyz"

\* c and d are the same character or the two cases of one letter
SameLetter(c, d) ==
    \/ c = d
    \/ \E i \in 1..26 : {c, d} = {CharAt(Uppers, i), CharAt(Lowers, i)}

\* q and p differ only in letter case
CaseVariant(q, p) ==
    /\ Len(q) = Len(p)
    /\ \A i \in 1..Len(q) : SameLetter(CharAt(q, i), CharAt(p, i))

----------------------------------------------------------------------------
(* Claims *)

\* C1: get_rental_details called with the id of a catalog record returns a
\* response without the error flag whose text is the serialization of the
\* record with that id, and of no record with another id.
C1_DetailsOfValidId ==
    (IsCall("get_rental_details") /\ HasStringArg("rental_id")
        /\ StringArg("rental_id") \in IdsOf(skiRentals))
    => /\ Returned
       /\ ~IsError(result.value)
       /\ \A i \in 1..Len(skiRentals) :
            (skiRentals[i].id = StringArg("rental_id"))
                <=> SucceededWith(StringifyRental(skiRentals[i], 0))

C1_Witness ==
    /\ IsCall("get_rental_details") /\ HasStringArg("rental_id")
    /\ StringArg("rental_id") = "jagged-edge"
    /\ SucceededWith(StringifyRental(skiRentals[3], 0))

\* C2: get_rental_details called with a string that is not exactly the id of
\* a catalog record (a case variant of an id included) returns normally with
\* the error flag set and a message that contains the requested string.
C2_DetailsOfUnknownId ==
    (IsCall("get_rental_details") /\ HasStringArg("rental_id")
        /\ StringArg("rental_id") \notin IdsOf(skiRentals))
    => /\ FailedInBand
       /\ Occurs(StringArg("rental_id"), TextOf(result.value))

C2_Witness ==
    /\ IsCall("get_rental_details") /\ HasStringArg("rental_id")
    /\ StringArg("rental_id") = "Bootdoctors"
    /\ FailedInBand
    /\ Occurs("Bootdoctors", TextOf(result.value))

\* C3: search_rentals called with the empty string returns every catalog
\* record, in store order, in a response without the error flag.
C3_EmptyQueryReturnsAll ==
    (IsCall("search_rentals") /\ HasStringArg("query") /\ StringArg("query") = "")
    => SucceededWith(StringifyRentals(skiRentals, 0))

C3_Witness ==
    /\ IsCall("search_rentals") /\ HasStringArg("query")
    /\ StringArg("query") = ""
    /\ Returned
    /\ Len(skiRentals) = 6

\* C4: search_rentals answers two queries that differ only in letter case
\* with the same result.
C4_SearchIgnoresQueryCase ==
    (IsCall("search_rentals") /\ HasStringArg("query"))
    => \A p \in QueryInputs :
            CaseVariant(StringArg("query"), p)
            => result = CallToolHandler(skiRentals,
                   [name |-> "search_rentals",
                    arguments |-> Obj([k \in {"query"} |-> Str(p)])])

C4_Witness ==
    /\ IsCall("search_rentals") /\ HasStringArg("query")
    /\ StringArg("query") = "MOUNTAIN VILLAGE"
    /\ SucceededWith(StringifyRentals(<<skiRentals[2], skiRentals[4]>>, 0))

\* the record matches the query as section 4.1 of the specification states:
\* the lower-cased query occurs in the lower-cased name, location or
\* description, or in a lower-cased element of services or rentalTypes
MatchesQuery(r, q) ==
    LET lq == toLowerCase(q) IN
    \/ \E f \in {r.name, r.location, r.description} : Occurs(lq, toLowerCase(f))
    \/ \E i \in 1..Len(r.services) : Occurs(lq, toLowerCase(r.services[i]))
    \/ \E i \in 1..Len(r.rentalTypes) : Occurs(lq, toLowerCase(r.rentalTypes[i]))

\* C5: the result of search_rentals lists, in store order, exactly the
\* records that match the query in name, location, description, services or
\* rentalTypes; no other field causes a match, and when nothing matches the
\* response is the empty array without the error flag.
C5_SearchResultIsTheMatches ==
    (IsCall("search_rentals") /\ HasStringArg("query"))
    => LET matches == SelectSeq(skiRentals,
                        LAMBDA r : MatchesQuery(r, StringArg("query")))
       IN  /\ SucceededWith(StringifyRentals(matches, 0))
           /\ (matches = <<>>) => SucceededWith("[]")

\* a query that occurs in every address and in no searched field
C5_Witness ==
    /\ IsCall("search_rentals") /\ HasStringArg("query")
    /\ StringArg("query") = "81435"
    /\ Occurs("81435", skiRentals[1].address)
    /\ SucceededWith("[]")

\* C6: whatever calls came before, list_ski_rentals returns a response
\* without the error flag that holds all catalog records in load order.
C6_ListAllAfterAnyCalls ==
    IsCall("list_ski_rentals")
    => SucceededWith(StringifyRentals(SkiRentalsData, 0))

C6_Witness ==
    /\ IsCall("list_ski_rentals")
    /\ served >= 2
    /\ SucceededWith(StringifyRentals(SkiRentalsData, 0))

\* C7: no call changes the catalog: after any sequence of calls the array
\* skiRentals equals the array the process started with.
C7_CatalogNeverChanges == skiRentals = SkiRentalsData

C7_Witness ==
    /\ served >= 2
    /\ IsCall("get_rental_recommendations")
    /\ HasStringArg("need") /\ StringArg("need") = "nonsense-keyword"
    /\ skiRentals = SkiRentalsData

\* C8: the response to a call is a function of the call alone: after any
\* history it is the response a process that has served nothing gives.
C8_ResponseIndependentOfHistory ==
    (request.method = "tools/call")
    => result = CallToolHandler(SkiRentalsData, request.params)

C8_Witness ==
    /\ served >= 2
    /\ IsCall("search_rentals") /\ HasStringArg("query")
    /\ StringArg("query") = "backcountry"
    /\ result = CallToolHandler(SkiRentalsData, request.params)

\* C9: a call whose name is not the name of a listed tool returns normally
\* with the error flag set and a message that names the requested tool; the
\* arguments are not read.
C9_UnknownToolIsReported ==
    (request.method = "tools/call" /\ request.params.name \notin ToolNames)
    => /\ FailedInBand
       /\ Occurs(request.params.name, TextOf(result.value))
       /\ result = CallToolHandler(skiRentals,
                      [name |-> request.params.name, arguments |-> Undefined])

C9_Witness ==
    /\ IsCall("search")
    /\ request.params.arguments.type = "object"
    /\ FailedInBand
    /\ TextOf(result.value) = "Unknown tool: search"

\* the required argument of the tool called last
RequiredArg ==
    CASE IsCall("get_rental_details") -> "rental_id"
      [] IsCall("search_rentals") -> "query"
      [] IsCall("get_rental_recommendations") -> "need"

\* C10: a call of get_rental_details, search_rentals or
\* get_rental_recommendations whose required argument is missing or is not
\* a string returns normally with the error flag set and a message; it
\* never returns a response without the flag and never throws.
C10_MissingArgumentIsAnError ==
    ((IsCall("get_rental_details") \/ IsCall("search_rentals")
        \/ IsCall("get_rental_recommendations"))
     /\ LacksStringArg(RequiredArg))
    => /\ FailedInBand
       /\ Len(TextOf(result.value)) > 0

C10_Witness ==
    /\ IsCall("search_rentals")
    /\ request.params.arguments = Undefined
    /\ FailedInBand
    /\ TextOf(result.value)
        = "Error: Cannot read properties of undefined (reading 'query')"

\* the body of the handler threw while serving the last request
Faulted ==
    /\ request.method = "tools/call"
    /\ CallToolBody(skiRentals, request.params).kind = "throw"

\* C11: every tools/call ends with one returned response, never with a throw
\* out of the handler; when the body of the handler faulted, the response
\* carries the error flag and its text is "Error: " followed by the fault's
\* message; and the request handled after a faulted call gets the response
\* it gets from a server on which no call has been made.
C11_FaultsAreCaught ==
    /\ [](request.method = "tools/call" =>
            /\ Returned
            /\ Faulted =>
                /\ FailedInBand
                /\ TextOf(result.value)
                    = "Error: "
                        \o CallToolBody(skiRentals, request.params).error.message)
    /\ [][Faulted =>
            /\ request'.method = "tools/call"
                => result' = CallToolHandler(SkiRentalsData, request'.params)
            /\ request'.method = "tools/list" => result' = ListToolsHandler]_vars

C11_Witness ==
    /\ IsCall("search_rentals")
    /\ request.params.arguments = Obj([k \in {"query"} |-> Num(0)])
    /\ Faulted
    /\ FailedInBand
    /\ TextOf(result.value) = "Error: args.query.toLowerCase is not a function"

GenericExplanation ==
    "Here are all available ski rental options in the Telluride area."

\* C12: get_rental_recommendations with a need that is no recognized
\* keyword in any letter case returns a response without the error flag
\* whose recommendations are the whole catalog in store order and whose
\* explanation is the generic one.
C12_UnrecognizedNeedGetsEverything ==
    (/\ IsCall("get_rental_recommendations")
     /\ HasStringArg("need")
     /\ \A k \in NeedKeywords : ~CaseVariant(StringArg("need"), k))
    => SucceededWith(StringifyRecommendation(
            [explanation |-> GenericExplanation,
             recommendations |-> skiRentals], 0))

C12_Witness ==
    /\ IsCall("get_rental_recommendations")
    /\ HasStringArg("need")
    /\ StringArg("need") = "nonsense-keyword"
    /\ Len(skiRentals) = 6
    /\ SucceededWith(StringifyRecommendation(
            [explanation |-> GenericExplanation,
             recommendations |-> skiRentals], 0))

\* the last request was get_rental_recommendations with this need
Needs(need) ==
    /\ IsCall("get_rental_recommendations")
    /\ HasStringArg("need")
    /\ StringArg("need") = need

\* the explanation of each row of the policy, and the generic one
RowExplanation ==
    [beginner |-> "These shops offer beginner-friendly equipment and packages with great service for first-timers.",
     expert |-> "These shops specialize in high-performance equipment and expert boot fitting for advanced skiers.",
     backcountry |-> "These shops offer backcountry and touring equipment with avalanche safety gear.",
     delivery |-> "These shops offer delivery service to your accommodation.",
     budget |-> "These shops offer the most affordable rental options in the Telluride area.",
     premium |-> "These shops offer premium equipment and high-end services for the best skiing experience.",
     family |-> "These shops have great options for families and children's equipment."]

Explanations ==
    {RowExplanation[row] : row \in DOMAIN RowExplanation}
    \cup {GenericExplanation}

\* the result is a response without the error flag whose recommendations
\* are exactly recs, in this order, under one of the explanations
RecommendedExactly(recs) ==
    \E e \in Explanations :
        SucceededWith(StringifyRecommendation(
            [explanation |-> e, recommendations |-> recs], 0))

\* the result is a response without the error flag that lists r among its
\* recommendations
Recommended(r) ==
    /\ Returned
    /\ ~IsError(result.value)
    /\ Occurs(StringifyRental(r, 4), TextOf(result.value))

\* some tag contains word, letter case ignored
TagsContain(tags, word) ==
    \E i \in 1..Len(tags) :
        \E pre \in 0..(Len(tags[i]) - Len(word)) :
            CaseVariant(SubSeq(tags[i], pre + 1, pre + Len(word)), word)

\* the records of the catalog whose id is one of ids, in store order
WithIds(ids) == SelectSeq(skiRentals, LAMBDA r : r.id \in ids)

\* C13: get_rental_recommendations with need "delivery" lists every record
\* whose id is telluride-ski-rental-delivery, and with need "beginner" every
\* record whose id is paragon-ski-snowboard or mountain-sports-telluride,
\* whatever the services and rentalTypes of those records are.
C13_DesignatedIdsAreIncluded ==
    \A i \in 1..Len(skiRentals) :
        (\/ /\ Needs("delivery")
            /\ skiRentals[i].id = "telluride-ski-rental-delivery"
         \/ /\ Needs("beginner")
            /\ skiRentals[i].id \in {"paragon-ski-snowboard",
                                     "mountain-sports-telluride"})
        => Recommended(skiRentals[i])

\* a record with the delivery id and no delivery service is recommended
C13_Witness ==
    /\ Needs("delivery")
    /\ \E i \in 1..Len(skiRentals) :
        /\ skiRentals[i].id = "telluride-ski-rental-delivery"
        /\ ~TagsContain(skiRentals[i].services, "delivery")
        /\ Recommended(skiRentals[i])

PremiumIds == {"bootdoctors", "telluride-ski-rental-delivery", "telluride-sports"}

\* C14: get_rental_recommendations with need "premium" or "luxury" returns
\* exactly the records whose id is bootdoctors, telluride-ski-rental-delivery
\* or telluride-sports, in store order, whatever the tags of any record;
\* on the compiled-in catalog these are three records.
C14_PremiumIsTheAllowlist ==
    (Needs("premium") \/ Needs("luxury"))
    => /\ RecommendedExactly(WithIds(PremiumIds))
       /\ skiRentals = SkiRentalsData => Len(WithIds(PremiumIds)) = 3

\* a record tagged premium under another id is left out, and an
\* allowlisted record without the tag is returned
C14_Witness ==
    /\ Needs("luxury")
    /\ Len(skiRentals) = 2
    /\ skiRentals[1].id = "alpine-hut"
    /\ TagsContain(skiRentals[1].services, "premium")
    /\ skiRentals[2].id = "bootdoctors"
    /\ ~TagsContain(skiRentals[2].services \o skiRentals[2].rentalTypes, "premium")
    /\ RecommendedExactly(<<skiRentals[2]>>)

\* the records of the catalog whose services or rentalTypes contain word
TaggedWith(word) ==
    SelectSeq(skiRentals,
              LAMBDA r : TagsContain(r.services, word)
                            \/ TagsContain(r.rentalTypes, word))

\* C15: on the compiled-in catalog of six records, search_rentals with
\* query "backcountry" returns exactly the records whose services or
\* rentalTypes contain "backcountry" in any letter case, and that is the one
\* record jagged-edge.
C15_SearchBackcountryOnReference ==
    (/\ IsCall("search_rentals")
     /\ HasStringArg("query")
     /\ StringArg("query") = "backcountry"
     /\ skiRentals = SkiRentalsData)
    => /\ Len(skiRentals) = 6
       /\ SucceededWith(StringifyRentals(TaggedWith("backcountry"), 0))
       /\ Len(TaggedWith("backcountry")) = 1
       /\ TaggedWith("backcountry")[1].id = "jagged-edge"

C15_Witness ==
    /\ IsCall("search_rentals")
    /\ HasStringArg("query")
    /\ StringArg("query") = "backcountry"
    /\ skiRentals = SkiRentalsData
    /\ SucceededWith(StringifyRentals(<<skiRentals[3]>>, 0))
    /\ skiRentals[3].id = "jagged-edge"

\* the statement of C16 as written: with need "backcountry" or "touring"
\* the recommendations are exactly the records whose services or rentalTypes
\* contain "backcountry" or "touring", for any catalog
C16_AsWritten ==
    (Needs("backcountry") \/ Needs("touring"))
    => RecommendedExactly(
        SelectSeq(skiRentals,
                  LAMBDA r : \/ TagsContain(r.services, "backcountry")
                             \/ TagsContain(r.services, "touring")
                             \/ TagsContain(r.rentalTypes, "backcountry")
                             \/ TagsContain(r.rentalTypes, "touring")))

\* C16: get_rental_recommendations with need "backcountry" or "touring"
\* returns exactly the records of which some element of services contains
\* "backcountry" or some element of rentalTypes contains "backcountry" or
\* "touring", letter case ignored, in store order, for any catalog; a
\* record whose only such tag is "touring" in services is not returned.
C16_BackcountryPolicy ==
    (Needs("backcountry") \/ Needs("touring"))
    => RecommendedExactly(
        SelectSeq(skiRentals,
                  LAMBDA r : \/ TagsContain(r.services, "backcountry")
                             \/ TagsContain(r.rentalTypes, "backcountry")
                             \/ TagsContain(r.rentalTypes, "touring")))

\* a record with "touring" in services only is left out, one with
\* "touring" in rentalTypes is returned
C16_Witness ==
    /\ Needs("touring")
    /\ Len(skiRentals) = 2
    /\ TagsContain(skiRentals[1].services, "touring")
    /\ ~TagsContain(skiRentals[1].services, "backcountry")
    /\ ~TagsContain(skiRentals[1].rentalTypes, "touring")
    /\ ~TagsContain(skiRentals[1].rentalTypes, "backcountry")
    /\ TagsContain(skiRentals[2].rentalTypes, "touring")
    /\ RecommendedExactly(<<skiRentals[2]>>)

\* the rows of the policy table, each a predicate over a record
BeginnerRow(r) ==
    \/ TagsContain(r.rentalTypes, "beginner")
    \/ r.id \in {"paragon-ski-snowboard", "mountain-sports-telluride"}

ExpertRow(r) ==
    \/ TagsContain(r.rentalTypes, "performance")
    \/ TagsContain(r.rentalTypes, "premium")
    \/ r.id \in {"bootdoctors", "telluride-sports"}

DeliveryRow(r) ==
    \/ TagsContain(r.services, "delivery")
    \/ r.id = "telluride-ski-rental-delivery"

BudgetRow(r) ==
    \/ Occurs("$30", r.priceRange)
    \/ Occurs("$35", r.priceRange)
    \/ r.id = "mountain-sports-telluride"

FamilyRow(r) ==
    \/ TagsContain(r.rentalTypes, "kids")
    \/ TagsContain(r.rentalTypes, "junior")

\* C17: for the needs beginner, expert / advanced, delivery, budget /
\* affordable and family / kids, get_rental_recommendations returns exactly
\* the records of the catalog that satisfy the row of that need, in store
\* order, each once; no call returns the records of two rows together.
C17_RowsOfThePolicy ==
    /\ Needs("beginner") => RecommendedExactly(SelectSeq(skiRentals, BeginnerRow))
    /\ (Needs("expert") \/ Needs("advanced"))
        => RecommendedExactly(SelectSeq(skiRentals, ExpertRow))
    /\ Needs("delivery") => RecommendedExactly(SelectSeq(skiRentals, DeliveryRow))
    /\ (Needs("budget") \/ Needs("affordable"))
        => RecommendedExactly(SelectSeq(skiRentals, BudgetRow))
    /\ (Needs("family") \/ Needs("kids"))
        => RecommendedExactly(SelectSeq(skiRentals, FamilyRow))

\* budget on a catalog where one record qualifies by its id alone, its
\* priceRange holding neither marker, and the other record is left out
C17_Witness ==
    /\ Needs("budget")
    /\ Len(skiRentals) = 2
    /\ skiRentals[1].id = "mountain-sports-telluride"
    /\ ~Occurs("$30", skiRentals[1].priceRange)
    /\ ~Occurs("$35", skiRentals[1].priceRange)
    /\ ~BudgetRow(skiRentals[2])
    /\ RecommendedExactly(<<skiRentals[1]>>)

\* the row a recognized need selects
RowOf(need) ==
    CASE need = "beginner" -> "beginner"
      [] need \in {"expert", "advanced"} -> "expert"
      [] need \in {"backcountry", "touring"} -> "backcountry"
      [] need = "delivery" -> "delivery"
      [] need \in {"budget", "affordable"} -> "budget"
      [] need \in {"premium", "luxury"} -> "premium"
      [] need \in {"family", "kids"} -> "family"

\* the result is a response without the error flag whose explanation is e
Explains(e) ==
    /\ Returned
    /\ ~IsError(result.value)
    /\ LET head == "{\n  \"explanation\": \"" \o e \o "\",\n"
       IN  /\ Len(TextOf(result.value)) >= Len(head)
           /\ SubSeq(TextOf(result.value), 1, Len(head)) = head

\* C18: a response of get_rental_recommendations to a recognized need
\* carries the explanation of that need's row, whatever the catalog holds
\* and whether or not a record matched; the seven row explanations and the
\* generic one are eight different strings; and the generic explanation is
\* given only to a need that is no recognized keyword.
C18_ExplanationFollowsTheBranch ==
    /\ Cardinality(Explanations) = 8
    /\ \A need \in NeedKeywords :
        Needs(need) => Explains(RowExplanation[RowOf(need)])
    /\ (/\ IsCall("get_rental_recommendations")
        /\ HasStringArg("need")
        /\ Explains(GenericExplanation))
       => \A k \in NeedKeywords : ~CaseVariant(StringArg("need"), k)

\* the family explanation over a catalog in which no record matched
C18_Witness ==
    /\ Needs("family")
    /\ Len(skiRentals) > 0
    /\ SelectSeq(skiRentals, FamilyRow) = <<>>
    /\ SucceededWith(StringifyRecommendation(
            [explanation |-> RowExplanation.family,
             recommendations |-> <<>>], 0))

\* s with each upper-case letter replaced by its lower-case letter
RECURSIVE Lowered(_)
Lowered(s) ==
    IF s = "" THEN ""
    ELSE LET c == CharAt(s, 1)
             d == IF \E i \in 1..26 : CharAt(Uppers, i) = c
                    THEN CharAt(Lowers, CHOOSE i \in 1..26 : CharAt(Uppers, i) = c)
                    ELSE c
         IN  d \o Lowered(SubSeq(s, 2, Len(s)))

\* C19: get_rental_recommendations answers a need exactly as it answers
\* that need written in lower case: the two responses are the same value;
\* in particular "BEGINNER" and "Beginner" get the beginner row and its
\* explanation.
C19_NeedIsLowerCased ==
    (IsCall("get_rental_recommendations") /\ HasStringArg("need"))
    => /\ result
            = CallToolHandler(skiRentals,
                [name |-> "get_rental_recommendations",
                 arguments |-> Obj([k \in {"need"} |-> Str(Lowered(StringArg("need")))])])
       /\ StringArg("need") \in {"BEGINNER", "Beginner"}
            => /\ Explains(RowExplanation.beginner)
               /\ RecommendedExactly(SelectSeq(skiRentals, BeginnerRow))

C19_Witness ==
    /\ Needs("BEGINNER")
    /\ Lowered("BEGINNER") = "beginner"
    /\ Explains(RowExplanation.beginner)
    /\ RecommendedExactly(<<skiRentals[4], skiRentals[6]>>)

\* the statement of C20 as written: the text for an id that is not in the
\* catalog is `Record with id "<id>" not found.`
C20_AsWritten ==
    (/\ IsCall("get_rental_details")
     /\ HasStringArg("rental_id")
     /\ StringArg("rental_id") \notin IdsOf(skiRentals))
    => /\ FailedInBand
       /\ TextOf(result.value)
            = "Record with id \"" \o StringArg("rental_id") \o "\" not found."

\* C20: get_rental_details called with a string that is the id of no
\* catalog record returns a response with the error flag whose text is
\* exactly `Ski rental shop with ID "<id>" not found.`, <id> being the
\* requested string as given (the empty string included).
C20_NotFoundText ==
    (/\ IsCall("get_rental_details")
     /\ HasStringArg("rental_id")
     /\ StringArg("rental_id") \notin IdsOf(skiRentals))
    => /\ FailedInBand
       /\ TextOf(result.value)
            = "Ski rental shop with ID \"" \o StringArg("rental_id")
                \o "\" not found."

C20_Witness ==
    /\ IsCall("get_rental_details")
    /\ HasStringArg("rental_id")
    /\ StringArg("rental_id") = "does-not-exist"
    /\ FailedInBand
    /\ TextOf(result.value) = "Ski rental shop with ID \"does-not-exist\" not found."

\* C21: in every reachable state the catalog holds six records, no two of
\* them with the same id, and their ids are the six that README.md lists as
\* available.
C21_SixDistinctListedIds ==
    /\ Len(skiRentals) = 6
    /\ \A i, j \in 1..Len(skiRentals) :
        skiRentals[i].id = skiRentals[j].id => i = j
    /\ IdsOf(skiRentals) = AvailableIds

C21_Witness ==
    /\ served >= 2
    /\ IsCall("list_ski_rentals")
    /\ Len(skiRentals) = 6
    /\ Cardinality(IdsOf(skiRentals)) = 6
    /\ IdsOf(skiRentals) = AvailableIds

\* the names a tools/list response lists, in its order
ListedNames ==
    [i \in 1..Len(ListToolsHandler.value.tools) |->
        ListToolsHandler.value.tools[i].name]

\* the last call got the answer given to a name no test of the chain accepts
RoutedToUnknown ==
    /\ FailedInBand
    /\ TextOf(result.value) = "Unknown tool: " \o request.params.name

\* C22: every tools/list request, whatever was served before, returns the
\* same four descriptors, in registration order and with four different
\* names; a tools/call request gets the unknown-tool error exactly when its
\* name is none of those four; and each of the four names gets the answer
\* of its own handler.
C22_ListingAndDispatchAgree ==
    /\ request.method = "tools/list"
        => /\ result = ListToolsHandler
           /\ Len(result.value.tools) = 4
           /\ [i \in 1..4 |-> result.value.tools[i].name]
                = <<"list_ski_rentals", "get_rental_details", "search_rentals",
                    "get_rental_recommendations">>
           /\ \A i, j \in 1..4 :
                result.value.tools[i].name = result.value.tools[j].name => i = j
    /\ request.method = "tools/call"
        => LET name == request.params.name
               args == request.params.arguments
           IN  /\ RoutedToUnknown
                    <=> \A i \in 1..Len(ListedNames) : ListedNames[i] # name
               /\ name = ListedNames[1]
                    => result = Catch(ListSkiRentals(skiRentals))
               /\ name = ListedNames[2]
                    => result = Catch(GetRentalDetails(skiRentals, args))
               /\ name = ListedNames[3]
                    => result = Catch(SearchRentals(skiRentals, args))
               /\ name = ListedNames[4]
                    => result = Catch(GetRentalRecommendations(skiRentals, args))

\* a listing after an earlier request
C22_Witness ==
    /\ served >= 2
    /\ request.method = "tools/list"
    /\ Len(result.value.tools) = 4
    /\ result.value.tools[3].name = "search_rentals"

\* the other keyword of the row, for the keywords that share a row
PairedWith(need) ==
    CASE need = "expert" -> "advanced"
      [] need = "advanced" -> "expert"
      [] need = "backcountry" -> "touring"
      [] need = "touring" -> "backcountry"
      [] need = "budget" -> "affordable"
      [] need = "affordable" -> "budget"
      [] need = "premium" -> "luxury"
      [] need = "luxury" -> "premium"
      [] need = "family" -> "kids"
      [] need = "kids" -> "family"

PairedKeywords == NeedKeywords \ {"beginner", "delivery"}

\* the response of the handler to get_rental_recommendations with this need
ResponseTo(need) ==
    CallToolHandler(skiRentals,
        [name |-> "get_rental_recommendations",
         arguments |-> Obj([k \in {"need"} |-> Str(need)])])

\* C23: get_rental_recommendations with one keyword of a pair (expert and
\* advanced, backcountry and touring, budget and affordable, premium and
\* luxury, family and kids) returns the response it returns with the other
\* keyword of the pair: the same explanation and the same records in the
\* same order; and that response is the one of the pair's row, not the
\* fallback.
C23_PairedKeywordsAgree ==
    \A need \in PairedKeywords :
        Needs(need)
        => /\ result = ResponseTo(PairedWith(need))
           /\ Explains(RowExplanation[RowOf(PairedWith(need))])

C23_Witness ==
    /\ Needs("advanced")
    /\ Len(skiRentals) = 2
    /\ Explains(RowExplanation.expert)
    /\ RecommendedExactly(<<skiRentals[2]>>)
    /\ result = ResponseTo("expert")

\* the result is the fallback: the whole catalog under the generic
\* explanation
FellBack ==
    SucceededWith(StringifyRecommendation(
        [explanation |-> GenericExplanation,
         recommendations |-> skiRentals], 0))

\* C24: get_rental_recommendations takes the fallback branch for every
\* need whose lower-case form is not, as a whole string, one of the twelve
\* keywords: a need that contains a keyword, contains two, has a space
\* before a keyword, or is empty; and a need whose lower-case form is a
\* keyword never gets the generic explanation.
C24_WholeStringClassification ==
    (IsCall("get_rental_recommendations") /\ HasStringArg("need"))
    => /\ Lowered(StringArg("need")) \notin NeedKeywords => FellBack
       /\ StringArg("need") \in {"beginner skis", " beginner", "budget family", ""}
            => FellBack
       /\ Lowered(StringArg("need")) \in NeedKeywords
            => ~Explains(GenericExplanation)

\* a need that contains two keywords falls back
C24_Witness ==
    /\ Needs("budget family")
    /\ Occurs("budget", StringArg("need"))
    /\ Occurs("family", StringArg("need"))
    /\ Len(skiRentals) = 6
    /\ FellBack

\* the three cases of an error: the id looked up is the id of no record
\* (or no string at all), the name is no registered tool, the handler
\* faulted on a missing argument object or on an argument that is no string
LookupMissCase ==
    /\ IsCall("get_rental_details")
    /\ request.params.arguments.type = "object"
    /\ ~(HasStringArg("rental_id") /\ StringArg("rental_id") \in IdsOf(skiRentals))

UnknownNameCase ==
    /\ request.method = "tools/call"
    /\ request.params.name
        \notin {"list_ski_rentals", "get_rental_details", "search_rentals",
                "get_rental_recommendations"}

FaultCase ==
    \/ /\ (IsCall("get_rental_details") \/ IsCall("search_rentals")
            \/ IsCall("get_rental_recommendations"))
       /\ request.params.arguments = Undefined
    \/ /\ IsCall("search_rentals")
       /\ LacksStringArg("query")
    \/ /\ IsCall("get_rental_recommendations")
       /\ LacksStringArg("need")

\* C25: every response of the tools/call handler has one content block, of
\* type "text", and no other member than content and isError; the error
\* flag is set exactly when the id lookup missed, the name is unknown or a
\* fault was caught; a flagged response carries a message and an unflagged
\* one a serialized array or object, an empty search result and the
\* fallback of the recommendations included.
C25_ShapeAndErrorFlag ==
    request.method = "tools/call"
    => /\ Returned
       /\ DOMAIN result.value \subseteq {"content", "isError"}
       /\ Len(result.value.content) = 1
       /\ DOMAIN result.value.content[1] = {"type", "text"}
       /\ result.value.content[1].type = "text"
       /\ IsError(result.value)
            <=> (LookupMissCase \/ UnknownNameCase \/ FaultCase)
       /\ Faulted <=> FaultCase
       /\ LET first == SubSeq(TextOf(result.value), 1, 1)
          IN  IsError(result.value) <=> first \notin {"[", "{"}

\* a search that matches nothing: the empty array, not flagged
C25_Witness ==
    /\ IsCall("search_rentals")
    /\ HasStringArg("query")
    /\ StringArg("query") = "zzz"
    /\ SucceededWith("[]")

=============================================================================
